---- MODULE Spec2Model ----
(***************************************************************************)
(* Model of the ADB (Apple Desktop Bus) protocol decoder of               *)
(* decoders/adb/pd.py: the Decoder object, its decode() loop and the      *)
(* edge waits it performs on a one-channel sample stream.                 *)
(*                                                                         *)
(* Units.  Sample numbers are integers.  samplerate is in Hz and is a     *)
(* whole number of kHz in every run of the model.  pd.py computes times   *)
(* as IEEE doubles, ((b - a) / samplerate) * 1000000.0; the model keeps   *)
(* a time as the exact fraction num/den of microseconds and compares     *)
(* fractions by cross-multiplication.  For the samplerates and interval   *)
(* widths of this model the double computation and the exact one give     *)
(* the same comparison results.                                           *)
(***************************************************************************)
EXTENDS Integers, Sequences, FiniteSets, TLC

VARIABLES
    dec,            \* the Decoder object: the fields set by reset()/start(), and samplenum
    tolerance,      \* self.options['tolerance']
    command_label,  \* the local variable `command` of decode() (the label list's first text)
    ann_id,         \* the local variable `ann_id` of decode()
    pc,             \* position of the decode() call
    out,            \* annotations handed to put(), in order
    edges,          \* the sample stream: sample numbers of its edges; odd entries fall, even rise
    pos,            \* number of edges of the stream the waits have gone past
    trace,          \* the values of self.state at the top of each outer-loop iteration
    conf,           \* what the frontend feeds: the samplerate it announces, the stream's make-up
    run,            \* 1 for the first Decoder instance, 2 for the second
    first           \* what the first instance produced, once the second exists

vars == <<dec, tolerance, command_label, ann_id, pc, out, edges, pos, trace, conf, run, first>>

----------------------------------------------------------------------------
(* Timing table, pd.py `timing`, in microseconds. *)
timing ==
    [ RESET |-> 3000,      RESET_TOL |-> 100,
      ATTENTION |-> 800,   ATTENTION_TOL |-> 24,
      SYNC |-> 65,         SYNC_TOL |-> 2,
      BIT_CELL |-> 100,    BIT_CELL_TOL |-> 30,
      BIT_0_LOW |-> 65,    BIT_0_LOW_TOL |-> 5,
      BIT_1_LOW |-> 35,    BIT_1_LOW_TOL |-> 5,
      STOP |-> 70,         STOP_TOL |-> 21,
      STOP_SREQ |-> 300,   STOP_SREQ_TOL |-> 90,
      TLT |-> 200,         TLT_TOL |-> 60 ]

(* Annotation classes, pd.py `annotations`, by index. *)
annotations ==
    << "reset", "attention", "sync", "start", "stop", "addr", "cmd", "reg",
       "dat", "tlt", "srq", "command", "address", "register", "data", "warning" >>

(* Annotation rows, pd.py `annotation_rows`: the classes of each row. *)
annotation_rows ==
    [ bus |-> {0, 1, 2, 3, 4, 5, 6, 7, 8, 9, 10},
      transactions |-> {11, 12, 13, 14},
      warnings |-> {15} ]

(* Python's None, for a samplerate; a local not yet assigned; no object. *)
None == -1
Unbound == "<unbound>"
NoAnn == -1
NoObject == [state |-> "none"]

----------------------------------------------------------------------------
(* Text conversions. *)
HexDigits == << "0", "1", "2", "3", "4", "5", "6", "7",
                "8", "9", "a", "b", "c", "d", "e", "f" >>

RECURSIVE HexStr(_)
HexStr(n) == IF n < 16 THEN HexDigits[n + 1]
             ELSE HexStr(n \div 16) \o HexDigits[(n % 16) + 1]

(* str(hex(n)) *)
hex(n) == "0x" \o HexStr(n)

(* "0x{:04x}".format(n): at least four digits, zero padded *)
Format04x(n) ==
    "0x" \o (IF n < 16 THEN "000" ELSE IF n < 256 THEN "00"
             ELSE IF n < 4096 THEN "0" ELSE "") \o HexStr(n)

(* str(bit) *)
str(b) == IF b = 0 THEN "0" ELSE "1"

(* b << n *)
RECURSIVE shl(_, _)
shl(b, n) == IF n = 0 THEN b ELSE 2 * shl(b, n - 1)

----------------------------------------------------------------------------
(* ((b - a) / self.samplerate) * 1000000.0, as the fraction num/den of us. *)
interval_us(a, b, samplerate) ==
    [num |-> (b - a) * 1000, den |-> samplerate \div 1000]

(* check_tolerance with the lower limit excluded. *)
check_tolerance_open_below(width, type) ==
    LET tol10 == IF tolerance = "strict"
                 THEN timing[type \o "_TOL"] * 10
                 ELSE timing[type \o "_TOL"] * 11
    IN /\ width.num * 10 > (timing[type] * 10 - tol10) * width.den
       /\ width.num * 10 <= (timing[type] * 10 + tol10) * width.den

(* Decoder.check_tolerance.  tol10 is ten times the tolerance: the relaxed *)
(* tolerance is timing[type + '_TOL'] * 1.1.                                *)
check_tolerance(width, type) ==
    LET tol10 == IF tolerance = "strict"
                 THEN timing[type \o "_TOL"] * 10
                 ELSE timing[type \o "_TOL"] * 11
    IN /\ width.num * 10 >= (timing[type] * 10 - tol10) * width.den
       /\ width.num * 10 <= (timing[type] * 10 + tol10) * width.den

(* The ratio test with >= 0.6. *)
ratio_ge_06(x, bit_low, bit_high) ==
    x.num * 10 >= 6 * (bit_low.num + bit_high.num)

(* (x / bit_cell) > 0.6 with bit_cell = bit_low + bit_high *)
ratio_gt_06(x, bit_low, bit_high) ==
    x.num * 10 > 6 * (bit_low.num + bit_high.num)

(* The three-way test of the COMMAND and DATA bit loops. *)
classify_bit(bit_low, bit_high) ==
    IF ratio_gt_06(bit_low, bit_low, bit_high) THEN "Zero"
    ELSE IF ratio_gt_06(bit_high, bit_low, bit_high) THEN "One"
    ELSE "Malformed"

----------------------------------------------------------------------------
(* self.put(ss, es, self.out_ann, [cls, [txt, ...]]) *)
Ann(ss, es, cls, txt) == [ss |-> ss, es |-> es, cls |-> cls, txt |-> txt]

(* put handing the newest annotation over ahead of the earlier ones. *)
put_front(o, ss, es, cls, txt) == <<Ann(ss, es, cls, txt)>> \o o

put(o, ss, es, cls, txt) == Append(o, Ann(ss, es, cls, txt))

(* self.wait({0: 'f'}) / self.wait({0: 'r'}): the index of the next edge of *)
(* the wanted direction past the current position.                         *)
NextEdge(p, dir) ==
    IF ((p + 1) % 2 = 1) <=> (dir = "f") THEN p + 1 ELSE p + 2

EndOfStream(p, dir) == NextEdge(p, dir) > Len(edges)

(* Outcome of one wait: at the end of the stream the wait does not return   *)
(* and decode() ends there; otherwise self.samplenum is the edge's sample.  *)
Wait(d, p, dir) ==
    LET k == NextEdge(p, dir)
    IN IF k > Len(edges)
       THEN [eof |-> TRUE, dec |-> d, pos |-> Len(edges)]
       ELSE [eof |-> FALSE, dec |-> [d EXCEPT !.samplenum = edges[k]], pos |-> k]

(* What one step of decode() leaves behind. *)
Result(d, o, p, c) == [dec |-> d, out |-> o, pos |-> p, pc |-> c]

----------------------------------------------------------------------------
(* checks with `<=` for `<` at 400 kHz. *)
checks_le(d, o) ==
    IF d.samplerate <= 400000
    THEN put(o, 0, 0, 1, "Sampling rate is too low. Must be above 400kHz for proper normal mode decoding.")
    ELSE IF d.samplerate < 1000000
    THEN put(o, 0, 0, 1, "Sampling rate is suggested to be above 1MHz for proper normal mode decoding.")
    ELSE o

(* Decoder.checks: the samplerate annotations, put at samples 0..0. *)
checks(d, o) ==
    IF d.samplerate < 400000
    THEN put(o, 0, 0, 1, "Sampling rate is too low. Must be above 400kHz for proper normal mode decoding.")
    ELSE IF d.samplerate < 1000000
    THEN put(o, 0, 0, 1, "Sampling rate is suggested to be above 1MHz for proper normal mode decoding.")
    ELSE o

(* The test `self.samplerate is None` in place of `not self.samplerate`. *)
samplerate_is_none(d) == d.samplerate = None

(* `not self.samplerate` *)
not_samplerate(d) == d.samplerate = None \/ d.samplerate = 0

(* decode(), up to the loop: raise SamplerateError, or run checks(). *)
decode_enter(d, o, p) ==
    IF not_samplerate(d)
    THEN Result(d, o, p, "SamplerateError")
    ELSE Result(d, checks(d, o), p, "loop")

----------------------------------------------------------------------------
(* state == 'ATTENTION' *)
attention_width_ok(time) ==
    time.num >= (timing.ATTENTION - timing.ATTENTION_TOL) * time.den

(* The ATTENTION state without the clearing of the accumulators. *)
attention_step_no_clear(d, o, p) ==
    LET d0 == d
        w1 == IF d0.done = FALSE THEN Wait(d0, p, "f")
              ELSE [eof |-> FALSE, dec |-> d0, pos |-> p]
        d1 == IF d0.done = FALSE
              THEN [w1.dec EXCEPT !.fall = w1.dec.samplenum] ELSE d0
        w2 == Wait(d1, w1.pos, "r")
        d2 == [w2.dec EXCEPT !.rise = w2.dec.samplenum]
        time == interval_us(d2.fall, d2.rise, d2.samplerate)
    IN IF w1.eof THEN Result(d0, o, w1.pos, "eof")
       ELSE IF w2.eof THEN Result(d1, o, w2.pos, "eof")
       ELSE IF attention_width_ok(time)
       THEN Result([d2 EXCEPT !.state = "SYNC", !.tstart = d2.samplenum, !.done = FALSE],
                   put(o, d2.fall, d2.samplenum, 1, "Bus Attention"), w2.pos, "loop")
       ELSE Result([d2 EXCEPT !.done = FALSE], o, w2.pos, "loop")

attention_step(d, o, p) ==
    LET d0 == [d EXCEPT !.address = 0, !.command = 0, !.reg = 0,
                        !.data_word = 0, !.bit_count = 0]
        w1 == IF d0.done = FALSE THEN Wait(d0, p, "f")
              ELSE [eof |-> FALSE, dec |-> d0, pos |-> p]
        d1 == IF d0.done = FALSE
              THEN [w1.dec EXCEPT !.fall = w1.dec.samplenum] ELSE d0
        w2 == Wait(d1, w1.pos, "r")
        d2 == [w2.dec EXCEPT !.rise = w2.dec.samplenum]
        time == interval_us(d2.fall, d2.rise, d2.samplerate)
    IN IF w1.eof THEN Result(d0, o, w1.pos, "eof")
       ELSE IF w2.eof THEN Result(d1, o, w2.pos, "eof")
       ELSE IF attention_width_ok(time)
       THEN Result([d2 EXCEPT !.state = "SYNC", !.tstart = d2.samplenum, !.done = FALSE],
                   put(o, d2.fall, d2.samplenum, 1, "Bus Attention"), w2.pos, "loop")
       ELSE Result([d2 EXCEPT !.done = FALSE], o, w2.pos, "loop")

(* The SYNC state reporting a bad sync width as a warning. *)
sync_step_reporting(d, o, p) ==
    LET w1 == Wait(d, p, "f")
        d1 == [w1.dec EXCEPT !.fall = w1.dec.samplenum]
        time == interval_us(d1.rise, d1.fall, d1.samplerate)
    IN IF w1.eof THEN Result(d, o, w1.pos, "eof")
       ELSE IF check_tolerance(time, "SYNC")
       THEN Result([d1 EXCEPT !.state = "COMMAND"],
                   put(o, d1.rise, d1.samplenum, 2, "Sync"), w1.pos, "loop")
       ELSE Result([d1 EXCEPT !.state = "ATTENTION"],
                   put(o, d1.rise, d1.samplenum, 15, "Bad sync width"), w1.pos, "loop")

(* state == 'SYNC' *)
sync_step(d, o, p) ==
    LET w1 == Wait(d, p, "f")
        d1 == [w1.dec EXCEPT !.fall = w1.dec.samplenum]
        time == interval_us(d1.rise, d1.fall, d1.samplerate)
    IN IF w1.eof THEN Result(d, o, w1.pos, "eof")
       ELSE IF check_tolerance(time, "SYNC")
       THEN Result([d1 EXCEPT !.state = "COMMAND"],
                   put(o, d1.rise, d1.samplenum, 2, "Sync"), w1.pos, "loop")
       ELSE Result([d1 EXCEPT !.state = "ATTENTION"], o, w1.pos, "loop")

(* state == 'COMMAND': the label list chosen at bit_count == 6.  A command  *)
(* value of 1 matches no branch and leaves the local as it was.            *)
command_text(command, old) ==
    IF command = 0 THEN "Flush"
    ELSE IF command = 2 THEN "Listen"
    ELSE IF command = 3 THEN "Talk"
    ELSE old

(* The accumulation after a bit cell, by the bit's index. *)
accumulate(d) ==
    IF d.bit_count < 4
    THEN [d EXCEPT !.address = d.address + shl(d.bit, 3 - d.bit_count)]
    ELSE IF d.bit_count < 6
    THEN [d EXCEPT !.command = d.command + shl(d.bit, 5 - d.bit_count)]
    ELSE IF d.bit_count < 8
    THEN [d EXCEPT !.reg = d.reg + shl(d.bit, 7 - d.bit_count)]
    ELSE d

CmdResult(d, o, p, c, lbl, aid) ==
    [dec |-> d, out |-> o, pos |-> p, pc |-> c, command_label |-> lbl, ann_id |-> aid]

(* One iteration of `while self.bit_count < 8`; entry is TRUE for the      *)
(* iteration that follows `self.bit_count = 0`.  The iteration that ends   *)
(* the loop also puts the register annotation and sets STOP_CMD.           *)
command_step(d, o, p, lbl, aid, entry) ==
    LET d0 == IF entry THEN [d EXCEPT !.bit_count = 0] ELSE d
        bc == d0.bit_count
        aid1 == IF bc = 0 THEN 5 ELSE IF bc = 4 THEN 6 ELSE IF bc = 6 THEN 7 ELSE aid
        d1 == IF bc = 0 THEN [d0 EXCEPT !.sample_addr_start = d0.samplenum]
              ELSE IF bc = 4 THEN [d0 EXCEPT !.sample_cmd_start = d0.samplenum]
              ELSE IF bc = 6 THEN [d0 EXCEPT !.sample_reg_start = d0.samplenum]
              ELSE d0
        lbl1 == IF bc = 6 THEN command_text(d0.command, lbl) ELSE lbl
        unbound == bc = 6 /\ lbl1 = Unbound
        o1 == IF bc = 4
              THEN put(o, d1.sample_addr_start, d1.samplenum, 12, "Address: " \o hex(d1.address))
              ELSE IF bc = 6 /\ ~unbound
              THEN put(o, d1.sample_cmd_start, d1.samplenum, 11, lbl1)
              ELSE o
        bit_start == d1.samplenum
        d2 == [d1 EXCEPT !.fall = d1.samplenum]
        w1 == Wait(d2, p, "r")
        bit_mid == w1.dec.samplenum
        d3 == [w1.dec EXCEPT !.rise = w1.dec.samplenum]
        w2 == Wait(d3, w1.pos, "f")
        d4 == w2.dec
        bit_end == d4.samplenum
        bit_low == interval_us(bit_start, bit_mid, d4.samplerate)
        bit_high == interval_us(bit_mid, bit_end, d4.samplerate)
        kind == classify_bit(bit_low, bit_high)
        d5 == IF kind = "Zero" THEN [d4 EXCEPT !.bit = 0]
              ELSE IF kind = "One" THEN [d4 EXCEPT !.bit = 1]
              ELSE [d4 EXCEPT !.state = "ATTENTION"]
        o2 == IF kind = "Malformed" THEN o1
              ELSE put(o1, d5.fall, d5.samplenum, aid1, str(d5.bit))
        d6 == accumulate([d5 EXCEPT !.fall = d5.samplenum])
        d7 == [d6 EXCEPT !.bit_count = d6.bit_count + 1]
    IN IF unbound THEN CmdResult(d1, o, p, "UnboundLocalError", lbl1, aid1)
       ELSE IF w1.eof THEN CmdResult(d2, o1, w1.pos, "eof", lbl1, aid1)
       ELSE IF w2.eof THEN CmdResult(d3, o1, w2.pos, "eof", lbl1, aid1)
       ELSE IF d7.bit_count < 8 THEN CmdResult(d7, o2, w2.pos, "command", lbl1, aid1)
       ELSE CmdResult([d7 EXCEPT !.state = "STOP_CMD"],
                      put(o2, d7.sample_reg_start, d7.samplenum, 13, "Register: " \o hex(d7.reg)),
                      w2.pos, "loop", lbl1, aid1)

(* The stop-bit test taking a service request for a stop bit. *)
stop_kind_merged(time) ==
    IF check_tolerance(time, "STOP") \/ check_tolerance(time, "STOP_SREQ") THEN "STOP"
    ELSE "none"

(* The stop-bit test shared by STOP_CMD and STOP_DATA. *)
stop_kind(time) ==
    IF check_tolerance(time, "STOP") THEN "STOP"
    ELSE IF check_tolerance(time, "STOP_SREQ") THEN "STOP_SREQ"
    ELSE "none"

(* The stop annotations put from self.rise back to self.fall. *)
stop_put_rise_first(o, d, kind) ==
    IF kind = "STOP" THEN put(o, d.rise, d.fall, 4, "STOP")
    ELSE IF kind = "STOP_SREQ" THEN put(o, d.rise, d.fall, 10, "Service Request")
    ELSE o

stop_put(o, d, kind) ==
    IF kind = "STOP" THEN put(o, d.fall, d.samplenum, 4, "STOP")
    ELSE IF kind = "STOP_SREQ" THEN put(o, d.fall, d.samplenum, 10, "Service Request")
    ELSE o

(* state == 'STOP_CMD' *)
stop_cmd_step(d, o, p) ==
    LET w1 == Wait(d, p, "r")
        d1 == [w1.dec EXCEPT !.rise = w1.dec.samplenum]
        time == interval_us(d1.fall, d1.rise, d1.samplerate)
        kind == stop_kind(time)
    IN IF w1.eof THEN Result(d, o, w1.pos, "eof")
       ELSE Result([d1 EXCEPT !.state = IF kind = "none" THEN "ATTENTION" ELSE "TLT"],
                   stop_put(o, d1, kind), w1.pos, "loop")

(* The TLT state without the flag: a mismatch only sets ATTENTION. *)
tlt_step_no_flag(d, o, p) ==
    LET w1 == Wait(d, p, "f")
        d1 == [w1.dec EXCEPT !.fall = w1.dec.samplenum]
        time == interval_us(d1.rise, d1.fall, d1.samplerate)
    IN IF w1.eof THEN Result(d, o, w1.pos, "eof")
       ELSE IF check_tolerance(time, "TLT")
       THEN Result([d1 EXCEPT !.state = "START_DATA"],
                   put(o, d1.rise, d1.samplenum, 9, "Stop-to-Start"), w1.pos, "loop")
       ELSE Result([d1 EXCEPT !.state = "ATTENTION"], o, w1.pos, "loop")

(* state == 'TLT' *)
tlt_step(d, o, p) ==
    LET w1 == Wait(d, p, "f")
        d1 == [w1.dec EXCEPT !.fall = w1.dec.samplenum]
        time == interval_us(d1.rise, d1.fall, d1.samplerate)
    IN IF w1.eof THEN Result(d, o, w1.pos, "eof")
       ELSE IF check_tolerance(time, "TLT")
       THEN Result([d1 EXCEPT !.state = "START_DATA"],
                   put(o, d1.rise, d1.samplenum, 9, "Stop-to-Start"), w1.pos, "loop")
       ELSE Result([d1 EXCEPT !.state = "ATTENTION", !.done = TRUE], o, w1.pos, "loop")

(* state == 'START_DATA' *)
start_data_step(d, o, p) ==
    LET bit_start == d.samplenum
        d1 == [d EXCEPT !.fall = d.samplenum]
        w1 == Wait(d1, p, "r")
        bit_mid == w1.dec.samplenum
        d2 == [w1.dec EXCEPT !.rise = w1.dec.samplenum]
        w2 == Wait(d2, w1.pos, "f")
        d3 == w2.dec
        bit_end == d3.samplenum
        bit_low == interval_us(bit_start, bit_mid, d3.samplerate)
        bit_high == interval_us(bit_mid, bit_end, d3.samplerate)
    IN IF w1.eof THEN Result(d1, o, w1.pos, "eof")
       ELSE IF w2.eof THEN Result(d2, o, w2.pos, "eof")
       ELSE IF ratio_gt_06(bit_high, bit_low, bit_high)
       THEN Result([d3 EXCEPT !.state = "DATA", !.fall = d3.samplenum],
                   put(o, d3.fall, d3.samplenum, 3, "Start"), w2.pos, "loop")
       ELSE Result([d3 EXCEPT !.state = "ATTENTION", !.fall = d3.samplenum], o, w2.pos, "loop")

(* state == 'DATA': one iteration of `while self.bit_count < 16`; entry is *)
(* TRUE for the iteration that follows `self.bit_count = 0`.  The          *)
(* iteration that ends the loop also puts the data annotation and sets     *)
(* STOP_DATA.                                                              *)
data_step(d, o, p, entry) ==
    LET d0 == IF entry
              THEN [d EXCEPT !.bit_count = 0, !.sample_data_start = d.samplenum]
              ELSE d
        bit_start == d0.samplenum
        d1 == [d0 EXCEPT !.fall = d0.samplenum]
        w1 == Wait(d1, p, "r")
        bit_mid == w1.dec.samplenum
        d2 == [w1.dec EXCEPT !.rise = w1.dec.samplenum]
        w2 == Wait(d2, w1.pos, "f")
        d3 == w2.dec
        bit_end == d3.samplenum
        bit_low == interval_us(bit_start, bit_mid, d3.samplerate)
        bit_high == interval_us(bit_mid, bit_end, d3.samplerate)
        kind == classify_bit(bit_low, bit_high)
        d4 == IF kind = "Zero"
              THEN [d3 EXCEPT !.bit = 0, !.bit_count = d3.bit_count + 1]
              ELSE IF kind = "One"
              THEN [d3 EXCEPT !.bit = 1, !.bit_count = d3.bit_count + 1]
              ELSE [d3 EXCEPT !.state = "ATTENTION"]
        o1 == IF kind = "Malformed" THEN o
              ELSE put(o, d4.fall, d4.samplenum, 8, str(d4.bit))
        d5 == [d4 EXCEPT !.data_word = d4.data_word + shl(d4.bit, 16 - d4.bit_count),
                         !.fall = d4.samplenum]
    IN IF w1.eof THEN Result(d1, o, w1.pos, "eof")
       ELSE IF w2.eof THEN Result(d2, o, w2.pos, "eof")
       ELSE IF d5.bit_count < 16 THEN Result(d5, o1, w2.pos, "data")
       ELSE Result([d5 EXCEPT !.state = "STOP_DATA"],
                   put(o1, d5.sample_data_start, d5.samplenum, 14, "Data: " \o Format04x(d5.data_word)),
                   w2.pos, "loop")

(* state == 'STOP_DATA' *)
stop_data_step(d, o, p) ==
    LET w1 == Wait(d, p, "r")
        d1 == [w1.dec EXCEPT !.rise = w1.dec.samplenum]
        time == interval_us(d1.fall, d1.rise, d1.samplerate)
        kind == stop_kind(time)
    IN IF w1.eof THEN Result(d, o, w1.pos, "eof")
       ELSE Result([d1 EXCEPT !.state = "ATTENTION"], stop_put(o, d1, kind), w1.pos, "loop")

----------------------------------------------------------------------------
(* reset with self.state shared between objects: a new object starts in   *)
(* the state the last one was left in.                                     *)
reset_shared_state(d) ==
    [ samplerate |-> None,
      state |-> IF d.state = "none" THEN "ATTENTION" ELSE d.state,
      bit |-> 0, bit_count |-> -1,
      address |-> 0, command |-> 0, reg |-> 0, data_word |-> 0,
      fall |-> 0, rise |-> 0, tstart |-> 0, tend |-> 0,
      sample_addr_start |-> 0, sample_cmd_start |-> 0,
      sample_reg_start |-> 0, sample_data_start |-> 0,
      done |-> FALSE, samplenum |-> 0 ]

(* Decoder.reset, called by __init__: self of the new object.  samplenum   *)
(* is the base class's, 0 before any wait.                                 *)
reset(d) ==
    [ samplerate |-> None, state |-> "ATTENTION", bit |-> 0, bit_count |-> -1,
      address |-> 0, command |-> 0, reg |-> 0, data_word |-> 0,
      fall |-> 0, rise |-> 0, tstart |-> 0, tend |-> 0,
      sample_addr_start |-> 0, sample_cmd_start |-> 0,
      sample_reg_start |-> 0, sample_data_start |-> 0,
      done |-> FALSE, samplenum |-> 0 ]

(* Decoder.start *)
start(d) ==
    [d EXCEPT !.bit = 0, !.bit_count = -1, !.address = 0, !.command = 0,
              !.reg = 0, !.data_word = 0, !.fall = 0, !.rise = 0,
              !.tstart = 0, !.tend = 0, !.sample_addr_start = 0,
              !.sample_cmd_start = 0, !.sample_reg_start = 0,
              !.sample_data_start = 0, !.done = FALSE]

(* Decoder.metadata *)
metadata(d, key, value) ==
    IF key # "SRD_CONF_SAMPLERATE" THEN d ELSE [d EXCEPT !.samplerate = value]

MetadataKeys == {"SRD_CONF_SAMPLERATE", "SRD_CONF_OTHER"}


----------------------------------------------------------------------------
(* The sample streams of the model.  Widths are written in tenths of a     *)
(* microsecond and turned into samples at the stream's samplerate; a       *)
(* stream is the list of widths between its edges, the first edge falling. *)

MaxTransactions == 2    \* transactions in a stream of well-formed transactions
SweepSteps == 2         \* samples swept on each side of a window limit

Samples(w, rate) == (w * (rate \div 1000)) \div 10000
Representable(w, rate) == (w * (rate \div 1000)) % 10000 = 0

RECURSIVE pow2(_)
pow2(n) == IF n = 0 THEN 1 ELSE 2 * pow2(n - 1)

BitOf(v, k) == (v \div pow2(k)) % 2

ZeroCell == <<650, 350>>
OneCell == <<350, 650>>

(* The n bit cells of the value v, most significant bit first. *)
CellsOf(v, n) == [i \in 1..n |-> IF BitOf(v, n - i) = 1 THEN OneCell ELSE ZeroCell]

(* The widths of a list of cells: low, high, low, high, ... *)
Flat(cells) == [i \in 1..(2 * Len(cells)) |-> cells[(i + 1) \div 2][2 - (i % 2)]]

(* A transaction: idle high, attention low, sync high, 8 command cells,    *)
(* stop low, stop-to-start high, start cell, 16 data cells, stop low.      *)
(* phase "command" is a transaction without data phase: it ends with the   *)
(* stop bit's low pulse, and the line then idles high.  cmdbyte and        *)
(* dataword record the values the cells were made from.                    *)
Tx(cmd, data) ==
    [ idle |-> 5000, att |-> 8000, sync |-> 650, cmd |-> CellsOf(cmd, 8),
      stop |-> 700, tlt |-> 2000, start |-> OneCell, data |-> CellsOf(data, 16),
      stop2 |-> 700, phase |-> "data", cmdbyte |-> cmd, dataword |-> data ]

TxWidths(t) ==
    <<t.idle, t.att, t.sync>> \o Flat(t.cmd) \o <<t.stop>>
        \o (IF t.phase = "command" THEN <<>>
            ELSE <<t.tlt>> \o t.start \o Flat(t.data) \o <<t.stop2>>)

RECURSIVE StreamWidths(_)
StreamWidths(txs) ==
    IF txs = <<>> THEN <<>> ELSE TxWidths(Head(txs)) \o StreamWidths(Tail(txs))

AllRepresentable(ws, rate) == \A i \in 1..Len(ws) : Representable(ws[i], rate)

RECURSIVE SumRange(_, _, _)
SumRange(ws, a, b) ==
    IF a > b THEN 0
    ELSE IF a = b THEN ws[a]
    ELSE SumRange(ws, a, (a + b) \div 2) + SumRange(ws, (a + b) \div 2 + 1, b)

(* The sample numbers of the edges: the running sums of the widths, from   *)
(* the sample `at`.                                                        *)
EdgesFrom(ws, rate, at) ==
    LET samples == [i \in 1..Len(ws) |-> Samples(ws[i], rate)]
    IN [i \in 1..Len(ws) |-> at + SumRange(samples, 1, i)]

(* A case: the stream built at `built` Hz, decoded with the samplerate     *)
(* `samplerate` the frontend announces (None: it announces none).          *)
Case(family, txs, built, samplerate, tol, again) ==
    [ family |-> family, txs |-> txs, built |-> built, samplerate |-> samplerate,
      tolerance |-> tol, again |-> again ]

(* The transactions of the well-formed streams: command byte, data word. *)
Patterns == { <<80, 42435>>,    \* 0x50 addr 5 Flush reg 0, 0xa5c3
              <<87, 65535>>,    \* 0x57 addr 5 command 1 reg 3, 0xffff
              <<169, 0>>,       \* 0xa9 addr 10 Listen reg 1, 0x0000
              <<254, 32769>> }  \* 0xfe addr 15 Talk reg 2, 0x8001

DataWords == {0, 1, 4660, 32768, 42435, 65535}

Tolerances == {"strict", "relaxed"}

RECURSIVE SeqsUpTo(_, _)
SeqsUpTo(S, n) ==
    IF n = 0 THEN {<<>>}
    ELSE LET shorter == SeqsUpTo(S, n - 1)
         IN shorter \cup {Append(q, x) : q \in {r \in shorter : Len(r) = n - 1}, x \in S}

(* Well-formed streams: up to MaxTransactions transactions of Patterns;    *)
(* one transaction of every command byte; one of every data word.          *)
WellFormedCases ==
    { Case("wellformed", [i \in 1..Len(q) |-> Tx(q[i][1], q[i][2])], 1000000, 1000000, "strict", "same") :
        q \in SeqsUpTo(Patterns, MaxTransactions) \ {<<>>} }
    \cup { Case("wellformed", <<Tx(c, 42435)>>, 1000000, 1000000, "strict", "same") : c \in 0..255 }
    \cup { Case("wellformed", <<Tx(92, w)>>, 1000000, 1000000, "relaxed", "same") : w \in DataWords }

(* Widths around the limits of a window, one sample apart. *)
SampleWidth(rate) == 10000 \div (rate \div 1000)

Sweep(limits, rate) ==
    { w \in { l + k * SampleWidth(rate) : l \in limits, k \in (0 - SweepSteps)..SweepSteps } :
        w > 0 /\ Representable(w, rate) }

SweepRates == {1000000, 10000000}

BaseTx == Tx(92, 42435)     \* 0x5c addr 5 Talk reg 0, 0xa5c3

FollowTx == Tx(169, 4660)   \* 0xa9 addr 10 Listen reg 1, 0x1234

(* A transaction with one width or cell changed, and a well-formed one     *)
(* after it.                                                               *)
OneTx(family, t, rate, tol) == Case(family, <<t, FollowTx>>, rate, rate, tol, "same")

(* The attention pulse around 800 -/+ 24 and 800 -/+ 26.4 us, and far off. *)
AttentionCases ==
    { OneTx("attention", [BaseTx EXCEPT !.att = w], rate, tol) :
        w \in UNION { Sweep({7760, 8240, 7736, 8264}, rate) \cup {1000, 7750, 8000, 30000} : rate \in {1000000} },
        rate \in {1000000}, tol \in Tolerances }

(* The sync interval around 65 -/+ 2 and 65 -/+ 2.2 us. *)
SyncWidths(rate) ==
    Sweep({630, 670, 628, 672}, rate)
        \cup {w \in {620, 629, 630, 650} : Representable(w, rate)}

SyncCases ==
    UNION { { OneTx("sync", [BaseTx EXCEPT !.sync = w], rate, tol) : w \in SyncWidths(rate) } :
            rate \in SweepRates, tol \in Tolerances }

(* The stop bits around 70 -/+ 21 (23.1) and 300 -/+ 90 (99) us. *)
StopWidths(rate) ==
    Sweep({490, 910, 2100, 3900, 469, 931, 2010, 3990}, rate) \cup {700, 1500, 3000}

StopCases ==
    UNION { { OneTx("stop_cmd", [BaseTx EXCEPT !.stop = w], rate, tol) : w \in StopWidths(rate) }
            \cup { OneTx("stop_data", [BaseTx EXCEPT !.stop2 = w], rate, tol) : w \in StopWidths(rate) } :
            rate \in SweepRates, tol \in Tolerances }

(* The stop-to-start gap around 200 -/+ 60 (66) us; and a transaction      *)
(* without data phase followed by a whole transaction.                     *)
TltCases ==
    { OneTx("tlt", [BaseTx EXCEPT !.tlt = w], rate, tol) :
        w \in UNION { Sweep({1400, 2600, 1340, 2660}, rate) \cup {1000, 2000} : rate \in {1000000} },
        rate \in {1000000}, tol \in Tolerances }
    \cup { Case("command_only", <<[Tx(q[1], q[2]) EXCEPT !.phase = "command"], Tx(r[1], r[2])>>,
                1000000, 1000000, "strict", "same") : q \in Patterns, r \in Patterns }

(* One bit cell of the transaction replaced: ratios around 0.6, and the    *)
(* clear cases.                                                            *)
CellVariants(rate) ==
    { <<l, 1000 - l>> : l \in Sweep({400, 600}, rate) }
        \cup { <<700, 300>>, <<300, 700>>, <<500, 500>>, <<300, 200>>, <<600, 900>> }

CellCases ==
    { OneTx("cell_cmd", [BaseTx EXCEPT !.cmd[i] = c], 1000000, "strict") :
        i \in 1..8, c \in CellVariants(1000000) }
    \cup { OneTx("cell_data", [BaseTx EXCEPT !.data[i] = c], 1000000, "strict") :
        i \in 1..16, c \in CellVariants(1000000) }
    \cup { OneTx("cell_start", [BaseTx EXCEPT !.start = c], 1000000, "strict") :
        c \in CellVariants(1000000) }

(* Samplerates: none announced, 0, and rates on both sides of 400 kHz and  *)
(* 1 MHz.  Streams of rates that give whole samples are decoded again as   *)
(* the same microseconds sampled at 1 MHz.                                 *)
RateCases ==
    { Case("rate", <<Tx(q[1], q[2])>>, r[1], r[2], "strict", r[3]) :
        q \in Patterns,
        r \in { <<1000000, None, "same">>, <<1000000, 0, "same">>,
                <<200000, 200000, "rescaled">>, <<400000, 399000, "same">>,
                <<400000, 400000, "rescaled">>, <<800000, 800000, "rescaled">>,
                <<1000000, 999000, "same">>, <<2000000, 2000000, "rescaled">> } }

(* The cases of the model: those whose widths are whole samples. *)
Cases ==
    { c \in WellFormedCases \cup AttentionCases \cup SyncCases \cup StopCases
                \cup TltCases \cup CellCases \cup RateCases :
        AllRepresentable(StreamWidths(c.txs), c.built) }

----------------------------------------------------------------------------
Terminal == {"eof", "SamplerateError", "UnboundLocalError"}

Init ==
    \E c \in Cases :
        /\ conf = c
        /\ edges = EdgesFrom(StreamWidths(c.txs), c.built, 0)
        /\ tolerance = c.tolerance
        /\ dec = reset(NoObject)
        /\ command_label = Unbound
        /\ ann_id = NoAnn
        /\ pc = "new"
        /\ out = <<>>
        /\ pos = 0
        /\ trace = <<>>
        /\ run = 1
        /\ first = NoObject

Start ==
    /\ pc = "new"
    /\ dec' = start(dec)
    /\ pc' = "started"
    /\ UNCHANGED <<tolerance, command_label, ann_id, out, edges, pos, trace, conf, run, first>>

Metadata ==
    /\ pc = "started"
    /\ conf.samplerate # None
    /\ dec.samplerate = None
    /\ \E key \in MetadataKeys : dec' = metadata(dec, key, conf.samplerate)
    /\ UNCHANGED <<tolerance, command_label, ann_id, pc, out, edges, pos, trace, conf, run, first>>

Apply(r) ==
    /\ dec' = r.dec
    /\ out' = r.out
    /\ pos' = r.pos
    /\ pc' = r.pc

Decode ==
    /\ pc = "started"
    /\ conf.samplerate = None \/ dec.samplerate # None
    /\ Apply(decode_enter(dec, out, pos))
    /\ command_label' = Unbound
    /\ ann_id' = NoAnn
    /\ UNCHANGED <<tolerance, edges, trace, conf, run, first>>

AtState(name) == pc = "loop" /\ dec.state = name

Step(name, r) ==
    /\ AtState(name)
    /\ Apply(r)
    /\ trace' = Append(trace, name)
    /\ UNCHANGED <<tolerance, command_label, ann_id, edges, conf, run, first>>

ATTENTION == Step("ATTENTION", attention_step(dec, out, pos))

SYNC == Step("SYNC", sync_step(dec, out, pos))

COMMAND ==
    /\ AtState("COMMAND") \/ pc = "command"
    /\ LET r == command_step(dec, out, pos, command_label, ann_id, pc = "loop")
       IN /\ Apply(r)
          /\ command_label' = r.command_label
          /\ ann_id' = r.ann_id
    /\ trace' = IF pc = "loop" THEN Append(trace, "COMMAND") ELSE trace
    /\ UNCHANGED <<tolerance, edges, conf, run, first>>

STOP_CMD == Step("STOP_CMD", stop_cmd_step(dec, out, pos))

TLT == Step("TLT", tlt_step(dec, out, pos))

START_DATA == Step("START_DATA", start_data_step(dec, out, pos))

DATA ==
    /\ AtState("DATA") \/ pc = "data"
    /\ Apply(data_step(dec, out, pos, pc = "loop"))
    /\ trace' = IF pc = "loop" THEN Append(trace, "DATA") ELSE trace
    /\ UNCHANGED <<tolerance, command_label, ann_id, edges, conf, run, first>>

STOP_DATA == Step("STOP_DATA", stop_data_step(dec, out, pos))

(* A second, independent Decoder is constructed once the first one's       *)
(* decode() has ended, and is fed the same microseconds: the same samples, *)
(* or the stream sampled at 1 MHz.                                         *)
NewInstance ==
    /\ pc \in Terminal
    /\ run = 1
    /\ conf.again # "none"
    /\ first' = [out |-> out, trace |-> trace, pc |-> pc, state |-> dec.state,
                 built |-> conf.built]
    /\ run' = 2
    /\ dec' = reset(dec)
    /\ pc' = "new"
    /\ out' = <<>>
    /\ pos' = 0
    /\ trace' = <<>>
    /\ conf' = IF conf.again = "rescaled"
               THEN [conf EXCEPT !.built = 1000000, !.samplerate = 1000000]
               ELSE conf
    /\ edges' = IF conf.again = "rescaled"
                THEN EdgesFrom(StreamWidths(conf.txs), 1000000, 0)
                ELSE edges
    /\ UNCHANGED <<tolerance, command_label, ann_id>>

Next ==
    \/ Start
    \/ Metadata
    \/ Decode
    \/ ATTENTION
    \/ SYNC
    \/ COMMAND
    \/ STOP_CMD
    \/ TLT
    \/ START_DATA
    \/ DATA
    \/ STOP_DATA
    \/ NewInstance

Spec == Init /\ [][Next]_vars

----------------------------------------------------------------------------
(* Vocabulary of the properties.  Widths are measured on the stream, in    *)
(* samples, and compared in exact arithmetic.                              *)

kHz == dec.samplerate \div 1000

Running == pc \in {"loop", "command", "data"}

NewAnns == SubSeq(out', Len(out) + 1, Len(out'))

IsBitAnn(e) == e.cls \in {5, 6, 7, 8}

RateTexts ==
    { "Sampling rate is too low. Must be above 400kHz for proper normal mode decoding.",
      "Sampling rate is suggested to be above 1MHz for proper normal mode decoding." }

IsRateAnn(e) == e.txt \in RateTexts

Last(q) == q[Len(q)]

(* The class a bit cell of low and high samples belongs to. *)
CellClass(low, high) ==
    IF 5 * low > 3 * (low + high) THEN "Zero"
    ELSE IF 5 * high > 3 * (low + high) THEN "One"
    ELSE "Malformed"

(* A whole bit cell lies ahead of the cursor, which stands on a falling edge. *)
CellAhead == pos >= 1 /\ pos + 2 <= Len(edges)
LowAhead == edges[pos + 1] - edges[pos]
HighAhead == edges[pos + 2] - edges[pos + 1]

(* w samples lie within nominal -/+ tol, both in tenths of a microsecond. *)
Within(w, nominal, tol) ==
    /\ w * 10000 >= (nominal - tol) * kHz
    /\ w * 10000 <= (nominal + tol) * kHz

----------------------------------------------------------------------------
(* The events a well-formed transaction is to produce, per-bit annotations *)
(* left out: class and text; "*" stands for a text the transaction does    *)
(* not fix.                                                                *)
CommandName(v) ==
    IF v = 0 THEN "Flush" ELSE IF v = 2 THEN "Listen" ELSE IF v = 3 THEN "Talk" ELSE "*"

ExpectedOf(t) ==
    << <<1, "Bus Attention">>, <<2, "Sync">>,
       <<12, "Address: " \o hex(t.cmdbyte \div 16)>>,
       <<11, CommandName((t.cmdbyte \div 4) % 4)>>,
       <<13, "Register: " \o hex(t.cmdbyte % 4)>>,
       <<4, "STOP">>, <<9, "Stop-to-Start">>, <<3, "Start">>,
       <<14, "Data: " \o Format04x(t.dataword)>>, <<4, "STOP">> >>

RECURSIVE ExpectedAll(_)
ExpectedAll(txs) ==
    IF txs = <<>> THEN <<>> ELSE ExpectedOf(Head(txs)) \o ExpectedAll(Tail(txs))

Matches(e, x) == e.cls = x[1] /\ (x[2] = "*" \/ e.txt = x[2])

NotBitAnn(e) == ~IsBitAnn(e)

(* C1: once decode() has ended on a stream of well-formed transactions,    *)
(* the annotations other than the per-bit ones are, for each transaction   *)
(* in turn, Attention, Sync, Address, Command, Register, Stop,             *)
(* Stop-to-Start, Start, Data, Stop, with the address, command, register   *)
(* and data values of the transaction's bits.                              *)
C1_WellFormedSequence ==
    (conf.family = "wellformed" /\ pc \in Terminal) =>
        LET got == SelectSeq(out, NotBitAnn)
            want == ExpectedAll(conf.txs)
        IN /\ pc = "eof"
           /\ Len(got) = Len(want)
           /\ \A i \in 1..Len(got) : Matches(got[i], want[i])

(* The cells of the stream between the samples ss and es: the indices of   *)
(* the falling edges they start at.                                        *)
CellsWithin(ss, es) ==
    { k \in 1..(Len(edges) - 2) : k % 2 = 1 /\ edges[k] >= ss /\ edges[k + 2] <= es }

MalformedWithin(ss, es) ==
    \E k \in CellsWithin(ss, es) :
        CellClass(edges[k + 1] - edges[k], edges[k + 2] - edges[k + 1]) = "Malformed"

(* C2: a DATA phase in which a Malformed cell was read produces no Data    *)
(* annotation and does not lead to STOP_DATA: no Data annotation spans a   *)
(* Malformed cell, and in STOP_DATA the cells read since the data phase    *)
(* began were all well-formed.                                             *)
C2_MalformedDataAborts ==
    /\ \A i \in 1..Len(out) :
          out[i].cls = 14 => ~MalformedWithin(out[i].ss, out[i].es)
    /\ dec.state = "STOP_DATA" => ~MalformedWithin(dec.sample_data_start, dec.samplenum)

(* C3: the Command annotation's text is fixed by the command value of the  *)
(* transaction: Flush for 0, Listen for 2, Talk for 3, and none of the     *)
(* three for 1.  Checked where the annotation has just been put, after the *)
(* bit cell of index 6.                                                    *)
C3_CommandLabel ==
    (pc = "command" /\ dec.bit_count = 7) =>
        LET cmds == SelectSeq(out, LAMBDA e : e.cls = 11)
        IN /\ cmds # <<>>
           /\ Last(cmds).txt = "Flush" <=> dec.command = 0
           /\ Last(cmds).txt = "Listen" <=> dec.command = 2
           /\ Last(cmds).txt = "Talk" <=> dec.command = 3

----------------------------------------------------------------------------
(* A SYNC step that finds its falling edge, and the width it measures:     *)
(* from the rising edge that ended the attention pulse to that edge.       *)
SyncMeasures == AtState("SYNC") /\ ~EndOfStream(pos, "f")
SyncEdge == edges[NextEdge(pos, "f")]
SyncWidth == SyncEdge - edges[pos]

(* C4: SYNC accepts the interval, putting the Sync annotation and going to *)
(* COMMAND, exactly when it lies within 65 -/+ 2 us under strict and       *)
(* within 65 -/+ 2.2 us under relaxed, limits included; otherwise it puts  *)
(* nothing and goes to ATTENTION.                                          *)
C4_SyncWindow ==
    [][ SyncMeasures =>
          IF Within(SyncWidth, 650, IF tolerance = "strict" THEN 20 ELSE 22)
          THEN /\ dec'.state = "COMMAND"
               /\ out' = Append(out, Ann(edges[pos], SyncEdge, 2, "Sync"))
          ELSE /\ dec'.state = "ATTENTION"
               /\ out' = out ]_vars

(* Witness of C4: under strict a sync of exactly 63 us has been accepted. *)
C4_Witness ==
    /\ tolerance = "strict"
    /\ AtState("COMMAND")
    /\ Last(trace) = "SYNC"
    /\ (dec.fall - dec.rise) * 1000 = 63 * kHz
    /\ Last(out).cls = 2

(* The steps that read one bit cell from the falling edge under the cursor. *)
ReadsCommandCell ==
    (AtState("COMMAND") \/ pc = "command") /\ CellAhead /\ pc' # "UnboundLocalError"
ReadsDataCell == (AtState("DATA") \/ pc = "data") /\ CellAhead
ReadsStartCell == AtState("START_DATA") /\ CellAhead

NewBitAnns == SelectSeq(NewAnns, IsBitAnn)

BitOutcome(kind) ==
    IF kind = "Zero" THEN Len(NewBitAnns) = 1 /\ NewBitAnns[1].txt = "0" /\ dec'.bit = 0
    ELSE IF kind = "One" THEN Len(NewBitAnns) = 1 /\ NewBitAnns[1].txt = "1" /\ dec'.bit = 1
    ELSE NewBitAnns = <<>> /\ dec'.bit = dec.bit

StopMeasures(name) == AtState(name) /\ ~EndOfStream(pos, "r")
StopEdge == edges[NextEdge(pos, "r")]
StopWidth == StopEdge - edges[pos]
InStopWindow == Within(StopWidth, 700, IF tolerance = "strict" THEN 210 ELSE 231)
InSreqWindow == Within(StopWidth, 3000, IF tolerance = "strict" THEN 900 ELSE 990)

StopOutcome ==
    /\ ~(InStopWindow /\ InSreqWindow)
    /\ InStopWindow => out' = Append(out, Ann(edges[pos], StopEdge, 4, "STOP"))
    /\ InSreqWindow => out' = Append(out, Ann(edges[pos], StopEdge, 10, "Service Request"))
    /\ (~InStopWindow /\ ~InSreqWindow) => out' = out

(* C6: in STOP_CMD and STOP_DATA the low pulse gives a Stop annotation     *)
(* exactly when it lies in the STOP window, a Service Request annotation   *)
(* exactly when it lies in the STOP_SREQ window, and nothing otherwise;    *)
(* the windows never both match.  STOP_CMD goes to TLT on a match and to   *)
(* ATTENTION otherwise; STOP_DATA goes to ATTENTION always.                *)
C6_StopOutcomes ==
    [][ /\ StopMeasures("STOP_CMD") =>
              /\ StopOutcome
              /\ dec'.state = IF InStopWindow \/ InSreqWindow THEN "TLT" ELSE "ATTENTION"
        /\ StopMeasures("STOP_DATA") =>
              /\ StopOutcome
              /\ dec'.state = "ATTENTION" ]_vars

(* Witness of C6: STOP_CMD has taken a low pulse for a service request. *)
C6_Witness ==
    /\ AtState("TLT")
    /\ out # <<>>
    /\ Last(out).cls = 10
    /\ Last(out).es = dec.samplenum

(* C7: a decode() called with no samplerate, or with samplerate 0, ends    *)
(* with SamplerateError before the loop: nothing is annotated, no edge is  *)
(* passed and the state is still ATTENTION.                                *)
C7_NoSamplerateFails ==
    (dec.samplerate \in {None, 0} /\ pc \notin {"new", "started"}) =>
        /\ pc = "SamplerateError"
        /\ out = <<>>
        /\ pos = 0
        /\ trace = <<>>
        /\ dec.samplenum = 0
        /\ dec.state = "ATTENTION"

(* Witness of C7: decode() has failed on a samplerate of 0. *)
C7_Witness == pc = "SamplerateError" /\ dec.samplerate = 0

----------------------------------------------------------------------------
TooLowText == "Sampling rate is too low. Must be above 400kHz for proper normal mode decoding."
SuggestedText == "Sampling rate is suggested to be above 1MHz for proper normal mode decoding."

(* The annotation spans a low pulse of the stream: a falling edge to the   *)
(* rising edge after it.                                                   *)
SpansLowPulse(e) ==
    \E k \in 1..(Len(edges) - 1) : k % 2 = 1 /\ edges[k] = e.ss /\ edges[k + 1] = e.es

(* C8: an annotation about the samplerate has the class Warning, 15, the   *)
(* class of the Warnings row, and no class of the Bus or Transactions row; *)
(* an annotation of the class Attention, 1, spans a low pulse of the bus.  *)
C8_WarningCategory ==
    \A i \in 1..Len(out) :
        /\ IsRateAnn(out[i]) =>
              /\ out[i].cls = 15
              /\ annotations[out[i].cls + 1] = "warning"
              /\ out[i].cls \in annotation_rows.warnings
              /\ out[i].cls \notin annotation_rows.bus \cup annotation_rows.transactions
        /\ out[i].cls = 1 => SpansLowPulse(out[i])

(* The samplerate annotations decode() is to start with, by their text. *)
RateTextsFor(s) ==
    IF s < 400000 THEN <<TooLowText>>
    ELSE IF s < 1000000 THEN <<SuggestedText>>
    ELSE <<>>

NotRateAnn(e) == ~IsRateAnn(e)

(* The second instance decoded, at 1 MHz, the microseconds the first one   *)
(* decoded at another samplerate.                                          *)
RescaledDone == run = 2 /\ pc \in Terminal /\ first.built # conf.built

SameSpan(a, b) ==
    /\ a.ss * (conf.built \div 1000) = b.ss * (first.built \div 1000)
    /\ a.es * (conf.built \div 1000) = b.es * (first.built \div 1000)

SameDecoding ==
    LET a == SelectSeq(first.out, NotRateAnn)
        b == SelectSeq(out, NotRateAnn)
    IN /\ pc = first.pc
       /\ trace = first.trace
       /\ dec.state = first.state
       /\ Len(a) = Len(b)
       /\ \A i \in 1..Len(a) :
             a[i].cls = b[i].cls /\ a[i].txt = b[i].txt /\ SameSpan(a[i], b[i])

(* C9: with a samplerate s > 0, decode() puts exactly one samplerate       *)
(* annotation, first of all, when s < 400000 (too low) or                  *)
(* 400000 <= s < 1000000 (suggested), and none when s >= 1000000, changes  *)
(* nothing else and enters the loop; no samplerate annotation comes later; *)
(* and the states gone through and the other annotations are those of the  *)
(* same microseconds decoded at 1 MHz, without an annotation.              *)
C9_RateWarning ==
    [][ /\ (pc = "started" /\ pc' # "started" /\ dec.samplerate > 0) =>
              /\ pc' = "loop"
              /\ dec' = dec
              /\ pos' = pos
              /\ [i \in 1..Len(out') |-> out'[i].txt] = RateTextsFor(dec.samplerate)
        /\ pc # "started" => \A i \in 1..Len(NewAnns) : ~IsRateAnn(NewAnns[i])
        /\ RescaledDone' => SameDecoding' ]_vars

(* Witness of C9: a stream decoded at 200 kHz, with its annotation, has    *)
(* been decoded again at 1 MHz to its end.                                 *)
C9_Witness ==
    /\ run = 2
    /\ pc = "eof"
    /\ first.built = 200000
    /\ first.out # <<>>
    /\ first.out[1].txt = TooLowText
    /\ Len(out) > 10

IsPrefix(a, b) == Len(a) <= Len(b) /\ a = SubSeq(b, 1, Len(a))

----------------------------------------------------------------------------
(* The annotations are in the order of their end samples. *)
EndsInOrder(o) == \A i \in 1..Len(o) : \A j \in i..Len(o) : o[i].es <= o[j].es

(* C11: annotations are put in stream order: the end sample of each is at  *)
(* or after the end sample of every annotation put before it in the run,   *)
(* and within a run neither the number of edges passed nor self.samplenum  *)
(* ever decreases.                                                         *)
C11_StreamOrder ==
    [][ /\ EndsInOrder(out')
        /\ run' = run =>
              /\ pos' >= pos
              /\ dec'.samplenum >= dec.samplenum
              /\ IsPrefix(out, out') ]_vars

(* Witness of C11: a whole transaction has been annotated, the Data        *)
(* annotation and the stop bit after it included, and a second one begun.  *)
C11_Witness ==
    /\ AtState("COMMAND")
    /\ Len(out) > 30
    /\ \E i \in 1..Len(out) : out[i].cls = 14 /\ out[i].es > out[i].ss
    /\ Last(out).cls = 2
    /\ Last(out).es = dec.samplenum

(* C12: decode() ends only where a wait meets the end of the stream: each  *)
(* iteration of the outer loop and of the COMMAND and DATA bit loops       *)
(* passes at least one edge or ends there, and once in the loop decode()   *)
(* ends in no other way.                                                   *)
C12_EndsAtEndOfStream ==
    [][ Running =>
          /\ pos' > pos \/ pc' = "eof"
          /\ pc' \in Terminal => pc' = "eof" ]_vars

----------------------------------------------------------------------------
(* An ATTENTION step that finds its edges, and the low pulse it measures:  *)
(* from the falling edge under the cursor when done is set, from the next  *)
(* falling edge otherwise, to the rising edge after it.                    *)
AttnFall == IF dec.done THEN pos ELSE NextEdge(pos, "f")
AttnRise == NextEdge(AttnFall, "r")
AttnMeasures == AtState("ATTENTION") /\ AttnRise <= Len(edges)
AttnWidth == edges[AttnRise] - edges[AttnFall]
AttnAccepted ==
    /\ dec'.state = "SYNC"
    /\ out' = Append(out, Ann(edges[AttnFall], edges[AttnRise], 1, "Bus Attention"))
AttnRejected == dec'.state = "ATTENTION" /\ out' = out

(* C13: under strict, ATTENTION puts the Attention annotation and goes to  *)
(* SYNC exactly when the low pulse lies within 800 -/+ 24 us, limits       *)
(* included; a narrower or a wider pulse puts nothing and leaves the state *)
(* ATTENTION.                                                              *)
C13_AttentionWindow ==
    [][ (AttnMeasures /\ tolerance = "strict") =>
          IF Within(AttnWidth, 8000, 240) THEN AttnAccepted ELSE AttnRejected ]_vars

(* The tolerance of the profile, in tenths of a microsecond, for a base    *)
(* tolerance in microseconds: 1.0 times it under strict, 1.1 under relaxed. *)
ProfileTol(base) == IF tolerance = "strict" THEN base * 10 ELSE base * 11

(* A TLT step that finds its falling edge, and the gap it measures. *)
TltMeasures == AtState("TLT") /\ ~EndOfStream(pos, "f")
TltWidth == edges[NextEdge(pos, "f")] - edges[pos]

StopMatches ==
    \/ Within(StopWidth, 700, ProfileTol(timing.STOP_TOL))
    \/ Within(StopWidth, 3000, ProfileTol(timing.STOP_SREQ_TOL))

(* C14: the tolerance of the profile is the one every window is tested     *)
(* with: SYNC, STOP, STOP_SREQ and TLT accept exactly the widths within    *)
(* nominal -/+ the profile's tolerance, and ATTENTION accepts every low    *)
(* pulse within 800 -/+ the profile's tolerance (26.4 us under relaxed)    *)
(* and rejects every pulse below that window.                              *)
C14_ProfileEverywhere ==
    [][ /\ AttnMeasures =>
              /\ Within(AttnWidth, 8000, ProfileTol(timing.ATTENTION_TOL)) => AttnAccepted
              /\ AttnWidth * 10000 < (8000 - ProfileTol(timing.ATTENTION_TOL)) * kHz => AttnRejected
        /\ SyncMeasures =>
              (dec'.state = "COMMAND" <=> Within(SyncWidth, 650, ProfileTol(timing.SYNC_TOL)))
        /\ StopMeasures("STOP_CMD") => (dec'.state = "TLT" <=> StopMatches)
        /\ StopMeasures("STOP_DATA") => (out' # out <=> StopMatches)
        /\ TltMeasures =>
              (dec'.state = "START_DATA" <=> Within(TltWidth, 2000, ProfileTol(timing.TLT_TOL))) ]_vars

----------------------------------------------------------------------------
(* C15: a COMMAND bit loop that reads a Malformed cell ends there: the     *)
(* outer loop is next with the state ATTENTION, no Register annotation is  *)
(* put, and STOP_CMD is never entered after a command field in which a     *)
(* Malformed cell was read.                                                *)
C15_MalformedCommandAborts ==
    [][ /\ (ReadsCommandCell /\ CellClass(LowAhead, HighAhead) = "Malformed") =>
              /\ pc' = "loop"
              /\ dec'.state = "ATTENTION"
              /\ \A i \in 1..Len(NewAnns) : NewAnns[i].cls # 13
        /\ AtState("STOP_CMD")' =>
              ~MalformedWithin(dec'.sample_addr_start, dec'.samplenum) ]_vars

(* The edge of the stream at a sample, and the value of the n cells that   *)
(* start at the falling edge k, most significant bit first.                *)
EdgeAt(sample) == CHOOSE k \in 1..Len(edges) : edges[k] = sample

CellClassAt(k) == CellClass(edges[k + 1] - edges[k], edges[k + 2] - edges[k + 1])

RECURSIVE FieldValue(_, _)
FieldValue(k, n) ==
    IF n = 0 THEN 0
    ELSE (IF CellClassAt(k) = "One" THEN pow2(n - 1) ELSE 0) + FieldValue(k + 2, n - 1)

(* The annotation spans exactly n cells of the stream, each a 0 or a 1. *)
SpansField(e, n) ==
    /\ \E k \in 1..Len(edges) : edges[k] = e.ss
    /\ EdgeAt(e.ss) % 2 = 1
    /\ EdgeAt(e.ss) + 2 * n <= Len(edges)
    /\ edges[EdgeAt(e.ss) + 2 * n] = e.es
    /\ \A i \in 0..(n - 1) : CellClassAt(EdgeAt(e.ss) + 2 * i) # "Malformed"

(* C16: an Address, Command or Register annotation spans the 4, 2 or 2     *)
(* cells of its field, every one of them a 0 or a 1, and carries the value *)
(* of exactly those cells, most significant bit first: no annotation is    *)
(* put for a field in which a Malformed cell was read, and no bit of       *)
(* another cell enters a value.                                            *)
C16_FieldsFromOwnBits ==
    \A i \in 1..Len(out) :
        /\ out[i].cls = 12 =>
              /\ SpansField(out[i], 4)
              /\ out[i].txt = "Address: " \o hex(FieldValue(EdgeAt(out[i].ss), 4))
        /\ out[i].cls = 11 =>
              /\ SpansField(out[i], 2)
              /\ FieldValue(EdgeAt(out[i].ss), 2) # 1 =>
                    out[i].txt = CommandName(FieldValue(EdgeAt(out[i].ss), 2))
        /\ out[i].cls = 13 =>
              /\ SpansField(out[i], 2)
              /\ out[i].txt = "Register: " \o hex(FieldValue(EdgeAt(out[i].ss), 2))

----------------------------------------------------------------------------
(* The accumulators lie within their field widths. *)
InFieldWidths(d) ==
    /\ d.address \in 0..15
    /\ d.command \in 0..3
    /\ d.reg \in 0..3
    /\ d.data_word \in 0..65535

(* C17: the accumulators stay within their field widths, address in 0..15, *)
(* command and register in 0..3, data word in 0..65535; a Data annotation  *)
(* carries the data word, of four hexadecimal digits; and a bit position   *)
(* is written once: a cell that is a 0 or a 1 adds its bit at the position *)
(* of its index in the field, and a Malformed cell leaves the accumulators *)
(* as they were.                                                           *)
C17_AccumulatorsInRange ==
    [][ /\ InFieldWidths(dec')
        /\ \A i \in 1..Len(NewAnns) :
              NewAnns[i].cls = 14 =>
                  /\ dec'.data_word \in 0..65535
                  /\ NewAnns[i].txt = "Data: " \o Format04x(dec'.data_word)
        /\ ReadsDataCell =>
              LET n == IF pc = "loop" THEN 0 ELSE dec.bit_count
                  kind == CellClass(LowAhead, HighAhead)
              IN IF kind = "Malformed"
                 THEN dec'.data_word = dec.data_word
                 ELSE /\ dec'.bit_count = n + 1
                      /\ dec'.data_word =
                            dec.data_word + (IF kind = "One" THEN pow2(15 - n) ELSE 0)
        /\ (ReadsCommandCell /\ CellClass(LowAhead, HighAhead) = "Malformed") =>
              /\ dec'.address = dec.address
              /\ dec'.command = dec.command
              /\ dec'.reg = dec.reg ]_vars

----------------------------------------------------------------------------
(* The ATTENTION entry that follows a TLT step. *)
AfterTlt == AtState("ATTENTION") /\ trace # <<>> /\ Last(trace) = "TLT"

(* C18: done becomes TRUE only in a TLT step whose gap does not match the  *)
(* TLT window, and while it is TRUE the state is ATTENTION.  The ATTENTION  *)
(* entry after that TLT step waits for no falling edge: it measures from   *)
(* the falling edge TLT stopped at to the next rising edge, and an         *)
(* Attention annotation it puts starts at that falling edge.  Every other  *)
(* ATTENTION entry goes first to the next falling edge and measures from   *)
(* there.  Every ATTENTION entry that finds its edges leaves done FALSE.   *)
C18_DoneFlag ==
    [][ /\ (dec'.done /\ ~dec.done) =>
              /\ TltMeasures
              /\ ~Within(TltWidth, 2000, ProfileTol(timing.TLT_TOL))
        /\ dec'.done => dec'.state = "ATTENTION"
        /\ (AfterTlt /\ ~EndOfStream(pos, "r")) =>
              /\ dec.done
              /\ pos' = NextEdge(pos, "r")
              /\ dec'.fall = edges[pos]
              /\ dec'.rise = edges[pos']
              /\ \A i \in 1..Len(NewAnns) : NewAnns[i].ss = edges[pos]
        /\ (AtState("ATTENTION") /\ ~AfterTlt /\ NextEdge(pos, "f") < Len(edges)) =>
              /\ ~dec.done
              /\ pos' = NextEdge(pos, "f") + 1
              /\ dec'.fall = edges[NextEdge(pos, "f")]
              /\ dec'.rise = edges[pos']
        /\ (AtState("ATTENTION") /\ pc' = "loop") => ~dec'.done ]_vars

(* Witness of C18: after a transaction without data phase, TLT stopped at  *)
(* the falling edge of the next attention pulse, and ATTENTION measured    *)
(* the pulse from that edge and accepted it.                               *)
C18_Witness ==
    /\ AtState("SYNC")
    /\ Len(trace) >= 2
    /\ trace[Len(trace) - 1] = "TLT"
    /\ Last(trace) = "ATTENTION"
    /\ ~dec.done
    /\ Last(out) = Ann(edges[pos - 1], edges[pos], 1, "Bus Attention")

----------------------------------------------------------------------------
(* The step puts nothing, sets ATTENTION and stays in the loop. *)
SilentReset == dec'.state = "ATTENTION" /\ out' = out /\ pc' = "loop"

(* C19: a sync interval, a command stop bit or a stop-to-start gap outside *)
(* its window, and a start cell that is a 0 or Malformed, each set the     *)
(* state ATTENTION, put no annotation at all and leave decode() in its     *)
(* loop; and ATTENTION is left only for SYNC, in the step that puts the    *)
(* Attention annotation.                                                   *)
C19_SilentResets ==
    [][ /\ (SyncMeasures /\ ~Within(SyncWidth, 650, ProfileTol(timing.SYNC_TOL))) => SilentReset
        /\ (StopMeasures("STOP_CMD") /\ ~StopMatches) => SilentReset
        /\ (TltMeasures /\ ~Within(TltWidth, 2000, ProfileTol(timing.TLT_TOL))) => SilentReset
        /\ (ReadsStartCell /\ CellClass(LowAhead, HighAhead) # "One") => SilentReset
        /\ (AtState("ATTENTION") /\ dec'.state # "ATTENTION") =>
              /\ dec'.state = "SYNC"
              /\ Len(NewAnns) = 1
              /\ NewAnns[1].cls = 1 ]_vars

(* Witness of C19: a start cell that is a 0 has been read: the state is    *)
(* ATTENTION and the Stop-to-Start annotation is still the last one.       *)
C19_Witness ==
    /\ AtState("ATTENTION")
    /\ trace # <<>>
    /\ Last(trace) = "START_DATA"
    /\ pos >= 3
    /\ CellClass(edges[pos - 1] - edges[pos - 2], edges[pos] - edges[pos - 1]) = "Zero"
    /\ Last(out).cls = 9
    /\ Last(out).es = edges[pos - 2]

----------------------------------------------------------------------------
(* The states gone through last, as a suffix of the trace. *)
CameThrough(states) ==
    /\ Len(trace) >= Len(states)
    /\ SubSeq(trace, Len(trace) - Len(states) + 1, Len(trace)) = states

(* C20: at every entry of COMMAND address, command, register and data word *)
(* are 0 and the bit counter is 0, and the states before it were ATTENTION *)
(* and SYNC; at every entry of DATA the data word is 0 and the states      *)
(* before it were ATTENTION, SYNC, COMMAND, STOP_CMD, TLT and START_DATA,  *)
(* whatever transactions came earlier in the stream.                       *)
C20_NoLeakBetweenTransactions ==
    /\ AtState("COMMAND") =>
          /\ dec.address = 0
          /\ dec.command = 0
          /\ dec.reg = 0
          /\ dec.data_word = 0
          /\ dec.bit_count = 0
          /\ CameThrough(<<"ATTENTION", "SYNC">>)
    /\ AtState("DATA") =>
          /\ dec.data_word = 0
          /\ CameThrough(<<"ATTENTION", "SYNC", "COMMAND", "STOP_CMD", "TLT", "START_DATA">>)

(* Witness of C20: COMMAND is entered after an earlier transaction whose   *)
(* address, register and data word were not 0.                             *)
C20_Witness ==
    /\ AtState("COMMAND")
    /\ \E i \in 1..Len(out) : out[i].cls = 14 /\ out[i].txt = "Data: 0x8001"
    /\ \E i \in 1..Len(out) : out[i].cls = 12 /\ out[i].txt = "Address: 0xf"
    /\ \E i \in 1..Len(out) : out[i].cls = 13 /\ out[i].txt = "Register: 0x2"

----------------------------------------------------------------------------
(* C21: every annotation put has a well-formed span: its start sample is   *)
(* not negative and not after its end sample.  This holds for the          *)
(* Attention annotation measured from the falling edge TLT stopped at, for *)
(* the Address, Command, Register and Data annotations, which start at a   *)
(* remembered sample, and for the bit annotations put after a Malformed    *)
(* cell of the same field.                                                 *)
C21_WellFormedSpans ==
    \A i \in 1..Len(out) : 0 <= out[i].ss /\ out[i].ss <= out[i].es

(* Witness of C21: in the DATA loop a bit annotation has been put after a  *)
(* Malformed cell read earlier in the same data field.                     *)
C21_Witness ==
    /\ pc = "data"
    /\ out # <<>>
    /\ Last(out).cls = 8
    /\ Last(out).es = dec.samplenum
    /\ Last(out).ss < Last(out).es
    /\ MalformedWithin(dec.sample_data_start, Last(out).ss)

====
